---- MODULE Spec2Model ----
(***************************************************************************)
(* Model of pkg/render/renderer.go of service-mesh-hub: the manifest       *)
(* renderer (ValidateInputs, ExecInputValuesTemplates,                     *)
(* ComputeValueOverrides, getManifestsFromSteps and the pipeline           *)
(* ComputeResourcesForApplication).                                        *)
(*                                                                         *)
(* Representation of Go values:                                            *)
(*   string (a text)  a sequence of tokens; a token is a YAML line         *)
(*                    "path: val", a piece of plain text, or a template    *)
(*                    action "{{ ... }}".  The empty string is << >>.      *)
(*   map[string]T     a function whose DOMAIN is the set of keys           *)
(*   error            a record [kind, arg]; nil is the record of kind nil  *)
(*   nested values    map[string]interface{}: a function from keys to      *)
(*                    [isMap, scalar, map]                                 *)
(***************************************************************************)
EXTENDS Integers, Sequences, FiniteSets, TLC

VARIABLES
    call,        \* the entry point invoked on this bundle
    pc,          \* "ready" before the call, "done" after it returned (or panicked)
    inputs,      \* the ValuesInputs bundle as the caller passed it
    spec,        \* the VersionedApplicationSpec / the installation steps
    failingDeps, \* the dependencies the injected validator rejects
    heapParams,  \* the contents of the Params map object the caller holds
    ret,         \* the value returned by the call
    err,         \* the error returned by the call
    panicked,    \* TRUE when the call ended in a Go panic
    selected,    \* ValidateInputs: the ids of selectedOptions when it returned
    acquired     \* the calls made to the rendering engine and the archive fetcher

vars == <<call, pc, inputs, spec, failingDeps, heapParams, ret, err, panicked,
          selected, acquired>>

-----------------------------------------------------------------------------
(* Bounds of the model *)

MaxLayerInputs == 2
MaxFlavorLayers == 2
MaxSteps == 3

-----------------------------------------------------------------------------
(* Texts *)

Line(p, v) == [kind |-> "line", path |-> p, val |-> v]
Lit(v) == [kind |-> "lit", path |-> <<>>, val |-> v]
Tmpl(e) == [kind |-> "tmpl", path |-> <<>>, val |-> e]

EmptyText == <<>>

-----------------------------------------------------------------------------
(* Errors *)

nil == [kind |-> "nil", arg |-> ""]
Error(k, a) == [kind |-> k, arg |-> a]

MissingInstallSpecError == Error("MissingInstallSpec", "")
FailedToRenderManifestsError(e) == Error("FailedToRenderManifests", e.kind)
FailedRenderValueTemplatesError(e) == Error("FailedRenderValueTemplates", e.kind)
MissingInputForRequiredLayer(e) == Error("MissingInputForRequiredLayer", e.kind)
MissingInputForRequireParam(name) == Error("MissingInputForRequireParam", name)
UnrecognizedParamError(name) == Error("UnrecognizedParam", name)
IncorrectNumberOfInputLayersError == Error("IncorrectNumberOfInputLayers", "")

-----------------------------------------------------------------------------
(* Nested-map utilities *)

EmptyMap == [k \in {} |-> 0]
ScalarVal(t) == [isMap |-> FALSE, scalar |-> t, map |-> EmptyMap]
MapVal(m) == [isMap |-> TRUE, scalar |-> EmptyText, map |-> m]

Put(m, k, v) == [x \in (DOMAIN m) \cup {k} |-> IF x = k THEN v ELSE m[x]]

RECURSIVE SetPath(_, _, _)
SetPath(m, path, t) ==
    LET k == Head(path) IN
    IF Len(path) = 1 THEN Put(m, k, ScalarVal(t))
    ELSE LET sub == IF k \in DOMAIN m /\ m[k].isMap THEN m[k].map ELSE EmptyMap
         IN Put(m, k, MapVal(SetPath(sub, Tail(path), t)))

RECURSIVE ParseLines(_, _)
ParseLines(text, m) ==
    IF text = <<>> THEN m
    ELSE ParseLines(Tail(text), SetPath(m, Head(text).path, <<Lit(Head(text).val)>>))

ConvertYamlStringToNestedMap(text) ==
    IF \E i \in 1..Len(text) : text[i].kind # "line"
    THEN [err |-> Error("YamlParseError", ""), map |-> EmptyMap]
    ELSE [err |-> nil, map |-> ParseLines(text, EmptyMap)]

RECURSIVE CoalesceValuesMap(_, _)
CoalesceValuesMap(base, overlay) ==
    [k \in (DOMAIN base) \cup (DOMAIN overlay) |->
        IF k \notin DOMAIN overlay THEN base[k]
        ELSE IF k \in DOMAIN base /\ base[k].isMap /\ overlay[k].isMap
             THEN MapVal(CoalesceValuesMap(base[k].map, overlay[k].map))
             ELSE overlay[k]]

(* The key of a parameter is a dotted path: "y.z" addresses z inside y. *)
SplitDotted(name) ==
    CASE name = "x" -> <<"x">>
      [] name = "y.z" -> <<"y", "z">>
      [] name = "y.w" -> <<"y", "w">>
      [] OTHER -> <<name>>

RECURSIVE ParamsInto(_, _, _)
ParamsInto(params, names, m) ==
    IF names = {} THEN m
    ELSE LET n == CHOOSE x \in names : TRUE
         IN ParamsInto(params, names \ {n}, SetPath(m, SplitDotted(n), params[n]))

ConvertParamsToNestedMap(params) ==
    [err |-> nil, map |-> ParamsInto(params, DOMAIN params, EmptyMap)]

(* yaml.Marshal writes the keys of a map in sorted order. *)
KeyOrder == <<"r", "w", "x", "y", "z">>

RECURSIVE FlattenKeys(_, _, _)
FlattenKeys(m, keys, prefix) ==
    IF keys = <<>> THEN <<>>
    ELSE LET k == Head(keys)
             here == IF k \notin DOMAIN m THEN <<>>
                     ELSE IF m[k].isMap
                          THEN FlattenKeys(m[k].map, KeyOrder, Append(prefix, k))
                          ELSE <<[path |-> Append(prefix, k), scalar |-> m[k].scalar]>>
         IN here \o FlattenKeys(m, Tail(keys), prefix)

ConvertNestedMapToYaml(m) == [err |-> nil, values |-> FlattenKeys(m, KeyOrder, <<>>)]

-----------------------------------------------------------------------------
(* Flavors, layers and layer options *)

LayerIds == <<"L1", "L2", "L3", "L4">>
LayerVals == <<"l1", "l2", "l3", "l4">>
DepIds == <<<<"d11", "d12">>, <<"d21", "d22">>, <<"d31", "d32">>, <<"d41", "d42">>>>
OptionIds == <<"o1", "o2">>
UnknownOptionId == "o9"

Parameter(name, required) == [Name |-> name, Required |-> required]

NilOption == [Id |-> "", HelmValues |-> EmptyText, ResourceDependencies |-> "",
              Parameters |-> <<>>, isNil |-> TRUE]

LayerOption(i, j) ==
    [Id |-> OptionIds[j],
     HelmValues |-> IF j = 1 THEN <<Line(<<"x">>, LayerVals[i])>>
                    ELSE IF i % 2 = 1 THEN <<Line(<<"y", "z">>, "lz")>>
                    ELSE EmptyText,
     ResourceDependencies |-> DepIds[i][j],
     Parameters |-> IF i = 1 /\ j = 1 THEN <<Parameter("y.z", TRUE)>> ELSE <<>>,
     isNil |-> FALSE]

Layer(i, optional) ==
    [Id |-> LayerIds[i], Optional |-> optional,
     Options |-> <<LayerOption(i, 1), LayerOption(i, 2)>>]

FlavorsOfSize(n) ==
    { [CustomizationLayers |-> [i \in 1..n |-> Layer(i, opt[i])], Parameters |-> <<>>] :
        opt \in [1..n -> BOOLEAN] }

Flavors == UNION { FlavorsOfSize(n) : n \in 0..MaxFlavorLayers }

GetRequiredLayerCount(flavor) ==
    Cardinality({i \in 1..Len(flavor.CustomizationLayers) :
                    ~flavor.CustomizationLayers[i].Optional})

GetLayerOption(optionId, layer) ==
    LET hits == {j \in 1..Len(layer.Options) : layer.Options[j].Id = optionId} IN
    IF hits = {} THEN [err |-> Error("NoSuchOption", optionId), option |-> NilOption]
    ELSE [err |-> nil,
          option |-> layer.Options[CHOOSE j \in hits : \A h \in hits : j <= h]]

GetLayerOptionFromFlavor(layerId, optionId, flavor) ==
    LET ls == flavor.CustomizationLayers
        hits == {i \in 1..Len(ls) : ls[i].Id = layerId} IN
    IF hits = {} THEN [err |-> Error("NoSuchLayer", layerId), option |-> NilOption]
    ELSE GetLayerOption(optionId, ls[CHOOSE i \in hits : \A h \in hits : i <= h])

-----------------------------------------------------------------------------
(* ValidateInputs *)

AllDeps == {DepIds[i][j] : i \in 1..Len(DepIds), j \in 1..2}

(* The injected validator: rejects exactly the dependencies in `failing`. *)
Validator(failing) ==
    [d \in AllDeps |-> IF d \in failing THEN Error("DependencyError", d) ELSE nil]

NoopValidateResources == Validator({})

Max(S) == CHOOSE x \in S : \A y \in S : y <= x
Min(S) == CHOOSE x \in S : \A y \in S : x <= y

(* SelectedOptionId as it would be with a break after the first match. *)
SelectedOptionId_FirstMatch(layers, layerId) ==
    LET matches == {i \in 1..Len(layers) : layers[i].LayerId = layerId} IN
    IF matches = {} THEN "" ELSE layers[Min(matches)].OptionId

(* The inner loop over inputs.Layers: every matching entry assigns optionId, *)
(* so the entry that matches last is the one that stays.                     *)
SelectedOptionId(layers, layerId) ==
    LET matches == {i \in 1..Len(layers) : layers[i].LayerId = layerId} IN
    IF matches = {} THEN "" ELSE layers[Max(matches)].OptionId

(* The loop over inputs.Flavor.CustomizationLayers, from layer i on. *)
RECURSIVE SelectFrom(_, _, _)
SelectFrom(i, in, selectedOptions) ==
    LET ls == in.Flavor.CustomizationLayers IN
    IF i > Len(ls) THEN [err |-> nil, selectedOptions |-> selectedOptions]
    ELSE LET flavorLayer == ls[i]
             optionId == SelectedOptionId(in.Layers, flavorLayer.Id)
             got == GetLayerOption(optionId, flavorLayer)
         IN IF got.err # nil /\ ~flavorLayer.Optional
            THEN [err |-> MissingInputForRequiredLayer(got.err),
                  selectedOptions |-> selectedOptions]
            ELSE SelectFrom(i + 1, in,
                            IF ~got.option.isNil
                            THEN Append(selectedOptions, got.option)
                            ELSE selectedOptions)

(* SelectOptions as it would be without the test of flavorLayer.Optional. *)
RECURSIVE SelectFromStrict(_, _, _)
SelectFromStrict(i, in, selectedOptions) ==
    LET ls == in.Flavor.CustomizationLayers IN
    IF i > Len(ls) THEN [err |-> nil, selectedOptions |-> selectedOptions]
    ELSE LET got == GetLayerOption(SelectedOptionId(in.Layers, ls[i].Id), ls[i])
         IN IF got.err # nil
            THEN [err |-> MissingInputForRequiredLayer(got.err),
                  selectedOptions |-> selectedOptions]
            ELSE SelectFromStrict(i + 1, in, Append(selectedOptions, got.option))

SelectOptions_IgnoreOptional(in) == SelectFromStrict(1, in, <<>>)

SelectOptions(in) == SelectFrom(1, in, <<>>)

(* The loop calling validate on every selected option, from option k on. *)
RECURSIVE ValidateFrom(_, _, _)
ValidateFrom(k, selectedOptions, validate) ==
    IF k > Len(selectedOptions) THEN nil
    ELSE LET e == validate[selectedOptions[k].ResourceDependencies]
         IN IF e # nil THEN e ELSE ValidateFrom(k + 1, selectedOptions, validate)

RECURSIVE OptionParameters(_)
OptionParameters(selectedOptions) ==
    IF selectedOptions = <<>> THEN <<>>
    ELSE Head(selectedOptions).Parameters \o OptionParameters(Tail(selectedOptions))

(* allParameters: a later declaration of a name replaces an earlier one. *)
AllParameters(in, sp, selectedOptions) ==
    LET decls == sp.Parameters \o in.Flavor.Parameters \o OptionParameters(selectedOptions)
        names == {decls[i].Name : i \in 1..Len(decls)}
    IN [n \in names |-> decls[Max({i \in 1..Len(decls) : decls[i].Name = n})]]

ParamValue(params, name) == IF name \in DOMAIN params THEN params[name] ELSE EmptyText

(* ValidationErrors with the dependency validator's verdict on the options  *)
(* selected so far taking precedence over a missing required layer.          *)
ValidationErrors_DepFirst(selErr, depErr, missing, unknown) ==
    IF depErr # nil THEN {depErr}
    ELSE IF selErr # nil THEN {selErr}
    ELSE IF missing # {} THEN {MissingInputForRequireParam(n) : n \in missing}
    ELSE IF unknown # {} THEN {UnrecognizedParamError(n) : n \in unknown}
    ELSE {nil}

(* The order of the returns of ValidateInputs after the count check: the     *)
(* layer loop, then the dependency loop, then the two parameter checks.  The *)
(* parameter checks range over Go maps, so when several parameters fail a    *)
(* check any of them can be the one reported.                                *)
ValidationErrors(selErr, depErr, missing, unknown) ==
    IF selErr # nil THEN {selErr}
    ELSE IF depErr # nil THEN {depErr}
    ELSE IF missing # {} THEN {MissingInputForRequireParam(n) : n \in missing}
    ELSE IF unknown # {} THEN {UnrecognizedParamError(n) : n \in unknown}
    ELSE {nil}

MissingParams(in, allParameters) ==
    {n \in DOMAIN allParameters :
        allParameters[n].Required /\ ParamValue(in.Params, n) = EmptyText}

UnknownParams(in, allParameters) ==
    {n \in DOMAIN in.Params : n \notin DOMAIN allParameters}

ValidateSelected(in, sp, validate, sel, allParameters) ==
    [selectedOptions |-> sel.selectedOptions,
     errs |-> ValidationErrors(sel.err, ValidateFrom(1, sel.selectedOptions, validate),
                               MissingParams(in, allParameters),
                               UnknownParams(in, allParameters))]

ValidateResolved(in, sp, validate, sel) ==
    ValidateSelected(in, sp, validate, sel, AllParameters(in, sp, sel.selectedOptions))

(* The result of ValidateInputs: the options it selected and the errors it   *)
(* can return.                                                               *)
ValidateInputs(in, sp, validate) ==
    IF Len(in.Layers) < GetRequiredLayerCount(in.Flavor)
    THEN [errs |-> {IncorrectNumberOfInputLayersError}, selectedOptions |-> <<>>]
    ELSE ValidateResolved(in, sp, validate, SelectOptions(in))

-----------------------------------------------------------------------------
(* ComputeValueOverrides *)

(* The loop over inputs.Layers, from layer input k on. *)
RECURSIVE CoalesceLayersFrom(_, _, _)
CoalesceLayersFrom(k, in, valuesMap) ==
    IF k > Len(in.Layers) THEN [err |-> nil, map |-> valuesMap]
    ELSE LET layerInput == in.Layers[k]
             got == GetLayerOptionFromFlavor(layerInput.LayerId, layerInput.OptionId,
                                             in.Flavor)
             layerValues == ConvertYamlStringToNestedMap(got.option.HelmValues)
         IN IF got.err # nil THEN [err |-> got.err, map |-> valuesMap]
            ELSE IF got.option.HelmValues # EmptyText
            THEN IF layerValues.err # nil
                 THEN [err |-> layerValues.err, map |-> valuesMap]
                 ELSE CoalesceLayersFrom(k + 1, in,
                                         CoalesceValuesMap(valuesMap, layerValues.map))
            ELSE CoalesceLayersFrom(k + 1, in, valuesMap)

ValuesResult(e, values) == [err |-> e, values |-> values]

(* The end of ComputeValueOverrides: the accumulated map is serialized. *)
SerializeValues(values) ==
    IF values.err # nil THEN ValuesResult(values.err, <<>>)
    ELSE ValuesResult(nil, values.values)

(* The merge of the user-defined values into the accumulated valuesMap. *)
CoalesceUser(valuesMap, userValues) ==
    IF userValues.err # nil THEN ValuesResult(userValues.err, <<>>)
    ELSE SerializeValues(ConvertNestedMapToYaml(
             CoalesceValuesMap(valuesMap, userValues.map)))

(* CoalesceParams with the parameters merged after the user-defined values. *)
CoalesceParams_AfterUser(in, valuesMap, paramValues) ==
    LET userValues == ConvertYamlStringToNestedMap(in.UserDefinedValues) IN
    IF paramValues.err # nil THEN ValuesResult(paramValues.err, <<>>)
    ELSE IF userValues.err # nil THEN ValuesResult(userValues.err, <<>>)
    ELSE SerializeValues(ConvertNestedMapToYaml(
             CoalesceValuesMap(CoalesceValuesMap(valuesMap, userValues.map),
                               paramValues.map)))

(* The merge of the parameters into the accumulated valuesMap, and what      *)
(* follows it.                                                               *)
CoalesceParams(in, valuesMap, paramValues) ==
    IF paramValues.err # nil THEN ValuesResult(paramValues.err, <<>>)
    ELSE CoalesceUser(CoalesceValuesMap(valuesMap, paramValues.map),
                      ConvertYamlStringToNestedMap(in.UserDefinedValues))

(* What follows the loop over inputs.Layers, `layered` being its outcome. *)
CoalesceLayers(in, layered) ==
    IF layered.err # nil THEN ValuesResult(layered.err, <<>>)
    ELSE CoalesceParams(in, layered.map, ConvertParamsToNestedMap(in.Params))

(* What follows the parsing of the spec-defined values. *)
CoalesceSpec(in, specValues) ==
    IF specValues.err # nil THEN ValuesResult(specValues.err, <<>>)
    ELSE CoalesceLayers(in, CoalesceLayersFrom(1, in,
                                CoalesceValuesMap(EmptyMap, specValues.map)))

ComputeValueOverrides(in) ==
    CoalesceSpec(in, ConvertYamlStringToNestedMap(in.SpecDefinedValues))

-----------------------------------------------------------------------------
(* ExecInputValuesTemplates *)

(* template.Parse: an action that is not well formed is a parse error. *)
MalformedAction == "if"
ParseFails(text) ==
    \E i \in 1..Len(text) : text[i].kind = "tmpl" /\ text[i].val = MalformedAction

ParamOfAction(e) ==
    CASE e = ".Params.x" -> "x"
      [] e = ".Params.r" -> "r"
      [] OTHER -> ""

(* Template.Execute of one token against the bundle `data`. *)
ExecuteToken(tok, data) ==
    IF tok.kind # "tmpl" THEN [err |-> nil, out |-> <<tok>>]
    ELSE CASE tok.val = ".Name" -> [err |-> nil, out |-> <<Lit(data.Name)>>]
           [] tok.val = ".InstallNamespace" ->
                  [err |-> nil, out |-> <<Lit(data.InstallNamespace)>>]
           [] tok.val = ".SpecDefinedValues" ->
                  [err |-> nil, out |-> data.SpecDefinedValues]
           [] tok.val = ".UserDefinedValues" ->
                  [err |-> nil, out |-> data.UserDefinedValues]
           [] ParamOfAction(tok.val) # "" ->
                  [err |-> nil, out |-> ParamValue(data.Params, ParamOfAction(tok.val))]
           [] OTHER -> [err |-> Error("TemplateExecError", tok.val), out |-> <<>>]

RECURSIVE Execute(_, _)
Execute(text, data) ==
    IF text = <<>> THEN [err |-> nil, out |-> <<>>]
    ELSE LET h == ExecuteToken(Head(text), data)
             t == Execute(Tail(text), data)
         IN IF h.err # nil THEN h
            ELSE IF t.err # nil THEN t
            ELSE [err |-> nil, out |-> h.out \o t.out]

EmptyFlavor == [CustomizationLayers |-> <<>>, Parameters |-> <<>>]

(* ValuesInputs{} *)
ZeroInputs ==
    [Name |-> "", InstallNamespace |-> "", Flavor |-> EmptyFlavor, Layers |-> <<>>,
     UserDefinedValues |-> EmptyText, SpecDefinedValues |-> EmptyText,
     Params |-> EmptyMap]

ExecOutcome(r, e, p, heap) == [ret |-> r, err |-> e, panicked |-> p, heap |-> heap]

(* The loop over inputs.Params, visiting the keys in the sequence `order`    *)
(* from position k on.  inputs.Params is a Go map: the copy of the bundle    *)
(* shares it with the caller, so `in.Params` is the map both of them see.    *)
RECURSIVE ExecParamsFrom(_, _, _)
ExecParamsFrom(k, order, in) ==
    IF k > Len(order) THEN ExecOutcome(in, nil, FALSE, in.Params)
    ELSE LET paramName == order[k]
             paramValue == in.Params[paramName]
             ex == Execute(paramValue, in)
         IN IF ParseFails(paramValue) THEN ExecOutcome(ZeroInputs, nil, TRUE, in.Params)
            ELSE IF ex.err # nil THEN ExecOutcome(ZeroInputs, ex.err, FALSE, in.Params)
            ELSE ExecParamsFrom(k + 1, order,
                                [in EXCEPT !.Params = Put(in.Params, paramName, ex.out)])

(* `order` is the order in which the range statement visits inputs.Params. *)
ExecInputValuesTemplates(in, order) ==
    LET specEx == Execute(in.SpecDefinedValues, in)
        in1 == [in EXCEPT !.SpecDefinedValues = specEx.out]
        userEx == Execute(in1.UserDefinedValues, in1)
        in2 == [in1 EXCEPT !.UserDefinedValues = userEx.out]
    IN IF ParseFails(in.SpecDefinedValues) THEN ExecOutcome(ZeroInputs, nil, TRUE, in.Params)
       ELSE IF specEx.err # nil THEN ExecOutcome(ZeroInputs, specEx.err, FALSE, in.Params)
       ELSE IF ParseFails(in1.UserDefinedValues)
       THEN ExecOutcome(ZeroInputs, nil, TRUE, in.Params)
       ELSE IF userEx.err # nil THEN ExecOutcome(ZeroInputs, userEx.err, FALSE, in.Params)
       ELSE ExecParamsFrom(1, order, in2)

RECURSIVE Perms(_)
Perms(S) ==
    IF S = {} THEN {<<>>}
    ELSE UNION { {<<x>> \o p : p \in Perms(S \ {x})} : x \in S }

MapOrders(m) == Perms(DOMAIN m)

-----------------------------------------------------------------------------
(* Manifests, resources and the external collaborators *)

InstallationStepLabel == "service-mesh-hub.solo.io/installation_step"

Resource(name, labels) == [name |-> name, labels |-> labels]

(* What the rendering engine and the archive fetcher produce for a location: *)
(* a list of manifests, each a list of resource documents, or a failure.     *)
EngineResult(uri) ==
    CASE uri = "one" ->
            [err |-> nil, manifests |-> << <<Resource("r1", EmptyMap)>> >>]
      [] uri = "two" ->
            [err |-> nil,
             manifests |-> << <<Resource("r2", [k \in {"app"} |-> "web"]),
                               Resource("r3", [k \in {InstallationStepLabel} |-> "old"])>> >>]
      [] OTHER -> [err |-> Error("EngineError", uri), manifests |-> <<>>]

Call(fn, uri, values) == [fn |-> fn, uri |-> uri, values |-> values]

RECURSIVE ResourceList(_)
ResourceList(manifests) ==
    IF manifests = <<>> THEN <<>>
    ELSE Head(manifests) \o ResourceList(Tail(manifests))

ManifestsFromResources(resources) == [i \in 1..Len(resources) |-> <<resources[i]>>]

Acquired(e, m, calls) == [err |-> e, manifests |-> m, calls |-> calls]

(* The call of the rendering engine (or of the archive fetcher) at `uri`     *)
(* with the values document `v`, and the wrapping of its failure.            *)
Render(fn, uri, values, r) ==
    IF r.err # nil
    THEN Acquired(FailedToRenderManifestsError(r.err), <<>>, <<Call(fn, uri, values)>>)
    ELSE Acquired(nil, r.manifests, <<Call(fn, uri, values)>>)

RenderWithValues(fn, uri, v) ==
    IF v.err # nil THEN Acquired(v.err, <<>>, <<>>)
    ELSE Render(fn, uri, v.values, EngineResult(uri))

getManifestsFromHelm(uri, in) ==
    RenderWithValues("RenderManifests", uri, ComputeValueOverrides(in))

getManifestsFromGithub(uri, in) ==
    RenderWithValues("RenderManifestsFromGithub", uri, ComputeValueOverrides(in))

getManifestsFromArchive(uri, in) ==
    Render("GetManifestsFromRemoteTar", uri, <<>>, EngineResult(uri))

getManifestsFromInstallationStep(in, step) ==
    CASE step.kind = "GithubChart" -> getManifestsFromGithub(step.Uri, in)
      [] step.kind = "HelmArchive" -> getManifestsFromHelm(step.Uri, in)
      [] step.kind = "ManifestsArchive" -> getManifestsFromArchive(step.Uri, in)
      [] OTHER -> Acquired(MissingInstallSpecError, <<>>, <<>>)

(* LabelResources leaving alone a resource that already carries the label. *)
LabelResources_KeepExisting(resources, stepName) ==
    [i \in 1..Len(resources) |->
        IF InstallationStepLabel \in DOMAIN resources[i].labels THEN resources[i]
        ELSE [resources[i] EXCEPT !.labels = Put(resources[i].labels,
                                                 InstallationStepLabel, stepName)]]

(* labels[InstallationStepLabel] = step.Name on every resource of the step *)
LabelResources(resources, stepName) ==
    [i \in 1..Len(resources) |->
        [resources[i] EXCEPT !.labels = Put(resources[i].labels,
                                            InstallationStepLabel, stepName)]]

(* One step of the loop over steps.Steps: the name checks made before the    *)
(* step's manifests are acquired.                                            *)
StepNameError(step, uniqueStepNames) ==
    IF step.Name = "" THEN Error("StepMustBeNamed", "")
    ELSE IF \E i \in 1..Len(uniqueStepNames) : uniqueStepNames[i] = step.Name
    THEN Error("DuplicateStepName", step.Name)
    ELSE nil

(* The manifests of one step, rebuilt from its labelled resources. *)
LabelledManifests(manifests, stepName) ==
    ManifestsFromResources(LabelResources(ResourceList(manifests), stepName))

(* The loop over steps.Steps, from step k on; `nameErr` is the outcome of    *)
(* the name checks of step k and `got` that of acquiring its manifests.      *)
RECURSIVE StepsFrom(_, _, _, _, _, _)

(* StepBody with the name checks made after the step's manifests are acquired. *)
StepBody_AcquireFirst(k, steps, in, uniqueStepNames, combinedManifests, calls, nameErr, got) ==
    IF got.err # nil THEN Acquired(got.err, <<>>, calls \o got.calls)
    ELSE IF nameErr # nil THEN Acquired(nameErr, <<>>, calls \o got.calls)
    ELSE StepsFrom(k + 1, steps, in, Append(uniqueStepNames, steps[k].Name),
                   combinedManifests \o LabelledManifests(got.manifests, steps[k].Name),
                   calls \o got.calls)

StepBody(k, steps, in, uniqueStepNames, combinedManifests, calls, nameErr, got) ==
    IF nameErr # nil THEN Acquired(nameErr, <<>>, calls)
    ELSE IF got.err # nil THEN Acquired(got.err, <<>>, calls \o got.calls)
    ELSE StepsFrom(k + 1, steps, in, Append(uniqueStepNames, steps[k].Name),
                   combinedManifests \o LabelledManifests(got.manifests, steps[k].Name),
                   calls \o got.calls)

StepsFrom(k, steps, in, uniqueStepNames, combinedManifests, calls) ==
    IF k > Len(steps) THEN Acquired(nil, combinedManifests, calls)
    ELSE StepBody(k, steps, in, uniqueStepNames, combinedManifests, calls,
                  StepNameError(steps[k], uniqueStepNames),
                  getManifestsFromInstallationStep(in, steps[k]))

getManifestsFromSteps(steps, in) ==
    IF Len(steps) = 0 THEN Acquired(Error("NoInstallationSteps", ""), <<>>, <<>>)
    ELSE StepsFrom(1, steps, in, <<>>, <<>>, <<>>)

GetManifestsFromApplicationSpec(in, sp) ==
    LET installationSpec == sp.InstallationSpec IN
    CASE installationSpec.kind = "GithubChart" ->
             getManifestsFromGithub(installationSpec.Uri, in)
      [] installationSpec.kind = "HelmArchive" ->
             getManifestsFromHelm(installationSpec.Uri, in)
      [] installationSpec.kind = "ManifestsArchive" ->
             getManifestsFromArchive(installationSpec.Uri, in)
      [] installationSpec.kind = "InstallationSteps" ->
             getManifestsFromSteps(installationSpec.Steps, in)
      [] OTHER -> Acquired(MissingInstallSpecError, <<>>, <<>>)

HasLabels(r, labels) ==
    \A k \in DOMAIN labels : k \in DOMAIN r.labels /\ r.labels[k] = labels[k]

FilterByLabel(sp, resources) ==
    LET labels == sp.RequiredLabels IN
    IF Cardinality(DOMAIN labels) > 0
    THEN SelectSeq(resources, LAMBDA r : HasLabels(r, labels))
    ELSE resources

ApplyLayers(in, manifests) == [err |-> nil, resources |-> ResourceList(manifests)]

-----------------------------------------------------------------------------
(* ComputeResourcesForApplication *)

Outcome(r, e, p, heap, calls) ==
    [ret |-> r, err |-> e, panicked |-> p, heap |-> heap, calls |-> calls]

(* The pipeline from ApplyLayers on, `got` being the acquired manifests. *)
RenderAcquired(sp, heap, got, raw) ==
    IF got.err # nil THEN Outcome(<<>>, got.err, FALSE, heap, got.calls)
    ELSE IF raw.err # nil THEN Outcome(<<>>, raw.err, FALSE, heap, got.calls)
    ELSE Outcome(FilterByLabel(sp, raw.resources), nil, FALSE, heap, got.calls)

(* The pipeline from GetManifestsFromApplicationSpec on, `ex` being the      *)
(* outcome of ExecInputValuesTemplates.                                      *)
RenderExpanded(sp, ex, got) ==
    IF ex.panicked THEN Outcome(<<>>, nil, TRUE, ex.heap, <<>>)
    ELSE IF ex.err # nil
    THEN Outcome(<<>>, FailedRenderValueTemplatesError(ex.err), FALSE, ex.heap, <<>>)
    ELSE RenderAcquired(sp, ex.heap, got, ApplyLayers(ex.ret, got.manifests))

RenderFrom(sp, ex) == RenderExpanded(sp, ex, GetManifestsFromApplicationSpec(ex.ret, sp))

(* The pipeline after ValidateInputs returned `verr`, with the Params map    *)
(* visited in `order` by the template pass.                                  *)
RenderAfterValidate(in, sp, verr, order) ==
    IF verr # nil THEN Outcome(<<>>, verr, FALSE, in.Params, <<>>)
    ELSE RenderFrom(sp, ExecInputValuesTemplates(in, order))

(* Every outcome of the pipeline: one per error ValidateInputs can report    *)
(* and per iteration order of the Params map.                                *)
ComputeResourcesForApplication(in, sp, validate) ==
    { RenderAfterValidate(in, sp, verr, order) :
        verr \in ValidateInputs(in, sp, validate).errs, order \in MapOrders(in.Params) }

-----------------------------------------------------------------------------
(* The bundles, specs and collaborators the entry points are called with *)

SeqsUpTo(S, n) == UNION { [1..k -> S] : k \in 0..n }

(* Layer ids 1..MaxFlavorLayers can be declared by a Flavor; the next one is *)
(* never declared.                                                           *)
LayerInputs ==
    { [LayerId |-> LayerIds[i], OptionId |-> o] :
        i \in 1..(MaxFlavorLayers + 1), o \in {"o1", "o2", UnknownOptionId} }

Bundle(flavor, layers, specValues, userValues, params) ==
    [Name |-> "demo", InstallNamespace |-> "app", Flavor |-> flavor, Layers |-> layers,
     UserDefinedValues |-> userValues, SpecDefinedValues |-> specValues,
     Params |-> params]

NoInstallationSpec == [kind |-> "None", Uri |-> "", Steps |-> <<>>]
Source(kind, uri) == [kind |-> kind, Uri |-> uri, Steps |-> <<>>]
Step(name, kind, uri) == [Name |-> name, kind |-> kind, Uri |-> uri]
InstallationSteps(steps) == [kind |-> "InstallationSteps", Uri |-> "", Steps |-> steps]

AppSpec(parameters, installationSpec, labels) ==
    [Parameters |-> parameters, InstallationSpec |-> installationSpec,
     RequiredLabels |-> labels]

OneParam(name, text) == [k \in {name} |-> text]

ValidateBundles ==
    { Bundle(f, ls, EmptyText, EmptyText, ps) :
        f \in Flavors, ls \in SeqsUpTo(LayerInputs, MaxLayerInputs),
        ps \in {EmptyMap, OneParam("y.z", <<Lit("v")>>)} }
    \cup
    { Bundle(f, <<[LayerId |-> "L1", OptionId |-> "o1"]>>, EmptyText, EmptyText, ps) :
        f \in FlavorsOfSize(1),
        ps \in {OneParam("x", <<Lit("v")>>), OneParam("x", EmptyText),
                OneParam("r", <<Lit("v")>>),
                [k \in {"x", "y.z"} |-> <<Lit("v")>>],
                [k \in {"r", "q"} |-> <<Lit("v")>>]} }

ValidateSpecs ==
    { AppSpec(ps, NoInstallationSpec, EmptyMap) :
        ps \in {<<>>, <<Parameter("x", TRUE)>>,
                <<Parameter("x", TRUE), Parameter("y.z", TRUE)>>} }

FailingDepsChoices == {{}, {"d11"}, {"d12", "d21"}}

FullFlavor ==
    [CustomizationLayers |-> [i \in 1..MaxFlavorLayers |-> Layer(i, TRUE)],
     Parameters |-> <<>>]

ValuesBundles ==
    { Bundle(FullFlavor, ls, sv, uv, ps) :
        ls \in SeqsUpTo(LayerInputs, MaxLayerInputs),
        sv \in {EmptyText, <<Line(<<"x">>, "1")>>, <<Line(<<"y">>, "1")>>,
                <<Line(<<"x">>, "1"), Line(<<"y", "z">>, "1")>>, <<Lit("]")>>},
        uv \in {EmptyText, <<Line(<<"x">>, "4")>>, <<Line(<<"y", "w">>, "4")>>,
                <<Line(<<"y">>, "4")>>},
        ps \in {EmptyMap, OneParam("x", <<Lit("3")>>), OneParam("y.z", <<Lit("3")>>)} }

ParamTexts ==
    {<<Lit("v")>>, <<Tmpl(".Name")>>, <<Tmpl(".Params.x")>>, <<Tmpl(".Params.r")>>,
     <<Tmpl(MalformedAction)>>, <<Tmpl(".NoSuchField")>>}

ExecBundles ==
    { Bundle(EmptyFlavor, <<>>, sv, uv, ps) :
        sv \in {EmptyText, <<Line(<<"x">>, "1")>>, <<Tmpl(".InstallNamespace")>>,
                <<Tmpl(MalformedAction)>>},
        uv \in {EmptyText, <<Tmpl(".SpecDefinedValues")>>, <<Tmpl(".NoSuchField")>>},
        ps \in UNION { [names -> ParamTexts] : names \in SUBSET {"x", "r"} } }

StepChoices ==
    { Step(n, src[1], src[2]) :
        n \in {"", "a", "b", "c"},
        src \in {<<"HelmArchive", "two">>, <<"ManifestsArchive", "one">>,
                 <<"HelmArchive", "fail">>, <<"None", "">>} }

StepsSpecs ==
    { AppSpec(<<>>, InstallationSteps(steps), EmptyMap) :
        steps \in SeqsUpTo(StepChoices, MaxSteps) }

StepsBundle == Bundle(EmptyFlavor, <<>>, <<Line(<<"x">>, "1")>>, EmptyText, EmptyMap)

RenderBundles ==
    { Bundle(f, ls, sv, EmptyText, ps) :
        f \in FlavorsOfSize(1), ls \in SeqsUpTo(LayerInputs, 1),
        sv \in {EmptyText, <<Line(<<"x">>, "1")>>, <<Tmpl(MalformedAction)>>,
                <<Tmpl(".NoSuchField")>>},
        ps \in {EmptyMap, OneParam("x", <<Tmpl(".Name")>>),
                OneParam("x", <<Tmpl(MalformedAction)>>), OneParam("r", <<Lit("v")>>)} }

RenderSpecs ==
    { AppSpec(<<Parameter("x", FALSE), Parameter("y.z", FALSE)>>, src, labels) :
        src \in {Source("HelmArchive", "one"), Source("GithubChart", "two"),
                 Source("ManifestsArchive", "two"), NoInstallationSpec,
                 InstallationSteps(<<Step("a", "HelmArchive", "one")>>)},
        labels \in {EmptyMap, [k \in {"app"} |-> "web"]} }

-----------------------------------------------------------------------------
(* The state machine: one call of an entry point on a fresh bundle *)

InitCall(c, in, sp, failing) ==
    /\ call = c
    /\ pc = "ready"
    /\ inputs = in
    /\ spec = sp
    /\ failingDeps = failing
    /\ heapParams = in.Params
    /\ ret = <<>>
    /\ err = nil
    /\ panicked = FALSE
    /\ selected = <<>>
    /\ acquired = <<>>

InitValidate ==
    \E in \in ValidateBundles, sp \in ValidateSpecs, failing \in FailingDepsChoices :
        InitCall("ValidateInputs", in, sp, failing)

InitValues ==
    \E in \in ValuesBundles :
        InitCall("ComputeValueOverrides", in,
                 AppSpec(<<Parameter("x", FALSE), Parameter("y.z", FALSE)>>,
                         NoInstallationSpec, EmptyMap), {})

InitExec ==
    \E in \in ExecBundles :
        InitCall("ExecInputValuesTemplates", in,
                 AppSpec(<<>>, NoInstallationSpec, EmptyMap), {})

InitSteps ==
    \E sp \in StepsSpecs : InitCall("getManifestsFromSteps", StepsBundle, sp, {})

InitRender ==
    \E in \in RenderBundles, sp \in RenderSpecs, failing \in {{}, {"d11"}} :
        InitCall("ComputeResourcesForApplication", in, sp, failing)

Init == InitValidate \/ InitValues \/ InitExec \/ InitSteps \/ InitRender

(* The bundle the callee receives: the struct by value, the Params map by    *)
(* reference.                                                                *)
Passed == [inputs EXCEPT !.Params = heapParams]

ValidateInputsCall ==
    /\ pc = "ready" /\ call = "ValidateInputs"
    /\ LET v == ValidateInputs(Passed, spec, Validator(failingDeps)) IN
         /\ err' \in v.errs
         /\ selected' = v.selectedOptions
    /\ pc' = "done"
    /\ UNCHANGED <<call, inputs, spec, failingDeps, heapParams, ret, panicked, acquired>>

ComputeValueOverridesCall ==
    /\ pc = "ready" /\ call = "ComputeValueOverrides"
    /\ LET v == ComputeValueOverrides(Passed) IN
         /\ err' = v.err
         /\ ret' = v.values
    /\ pc' = "done"
    /\ UNCHANGED <<call, inputs, spec, failingDeps, heapParams, panicked, selected,
                   acquired>>

ExecInputValuesTemplatesCall ==
    /\ pc = "ready" /\ call = "ExecInputValuesTemplates"
    /\ \E order \in MapOrders(heapParams) :
         LET o == ExecInputValuesTemplates(Passed, order) IN
           /\ ret' = o.ret
           /\ err' = o.err
           /\ panicked' = o.panicked
           /\ heapParams' = o.heap
    /\ pc' = "done"
    /\ UNCHANGED <<call, inputs, spec, failingDeps, selected, acquired>>

getManifestsFromStepsCall ==
    /\ pc = "ready" /\ call = "getManifestsFromSteps"
    /\ LET a == getManifestsFromSteps(spec.InstallationSpec.Steps, Passed) IN
         /\ ret' = a.manifests
         /\ err' = a.err
         /\ acquired' = a.calls
    /\ pc' = "done"
    /\ UNCHANGED <<call, inputs, spec, failingDeps, heapParams, panicked, selected>>

ComputeResourcesForApplicationCall ==
    /\ pc = "ready" /\ call = "ComputeResourcesForApplication"
    /\ \E o \in ComputeResourcesForApplication(Passed, spec, Validator(failingDeps)) :
         /\ ret' = o.ret
         /\ err' = o.err
         /\ panicked' = o.panicked
         /\ heapParams' = o.heap
         /\ acquired' = o.calls
    /\ pc' = "done"
    /\ UNCHANGED <<call, inputs, spec, failingDeps, selected>>

Next ==
    \/ ValidateInputsCall
    \/ ComputeValueOverridesCall
    \/ ExecInputValuesTemplatesCall
    \/ getManifestsFromStepsCall
    \/ ComputeResourcesForApplicationCall

Spec == Init /\ [][Next]_vars

SpecValidate == InitValidate /\ [][ValidateInputsCall]_vars
SpecValues == InitValues /\ [][ComputeValueOverridesCall]_vars
SpecExec == InitExec /\ [][ExecInputValuesTemplatesCall]_vars
SpecSteps == InitSteps /\ [][getManifestsFromStepsCall]_vars
SpecRender == InitRender /\ [][ComputeResourcesForApplicationCall]_vars

-----------------------------------------------------------------------------
(* Properties *)

Returned(c) == pc = "done" /\ call = c

(* The values a source sets, as the set of its (path, scalar) leaves. *)
Leaf(p, t) == [path |-> p, scalar |-> t]
TextLeaves(text) == {Leaf(text[i].path, <<Lit(text[i].val)>>) : i \in 1..Len(text)}
ParamLeaves(params) == {Leaf(SplitDotted(n), params[n]) : n \in DOMAIN params}

LayerInputLeaves(k) ==
    TextLeaves(GetLayerOptionFromFlavor(inputs.Layers[k].LayerId,
                                        inputs.Layers[k].OptionId,
                                        inputs.Flavor).option.HelmValues)

(* The value sources of the bundle in the order of their precedence: the     *)
(* spec values, the option of each layer input as supplied, the parameters,  *)
(* the user values.                                                          *)
ValueSources ==
    <<TextLeaves(inputs.SpecDefinedValues)>>
    \o [k \in 1..Len(inputs.Layers) |-> LayerInputLeaves(k)]
    \o <<ParamLeaves(inputs.Params), TextLeaves(inputs.UserDefinedValues)>>

IsPrefix(p, q) == Len(p) <= Len(q) /\ SubSeq(q, 1, Len(p)) = p
Touching(p) ==
    {i \in 1..Len(ValueSources) :
        \E l \in ValueSources[i] : IsPrefix(l.path, p) \/ IsPrefix(p, l.path)}
Setting(p) == {i \in 1..Len(ValueSources) : \E l \in ValueSources[i] : l.path = p}
SetPaths == {l.path : l \in UNION {ValueSources[i] : i \in 1..Len(ValueSources)}}
ValueIn(i, p) == (CHOOSE l \in ValueSources[i] : l.path = p).scalar

(* C1: when ComputeValueOverrides succeeds, every path that each source      *)
(* touching it sets to a scalar holds, in the returned values document, the  *)
(* scalar of the source of highest precedence among spec values < layer      *)
(* options in input order < parameters < user values; a path set by a single *)
(* source keeps that source's scalar.                                        *)
C1_Precedence ==
    (Returned("ComputeValueOverrides") /\ err = nil) =>
        \A p \in SetPaths :
            (Touching(p) = Setting(p)) =>
                /\ Cardinality({i \in 1..Len(ret) : ret[i].path = p}) = 1
                /\ \A i \in 1..Len(ret) :
                       ret[i].path = p => ret[i].scalar = ValueIn(Max(Setting(p)), p)

(* A successful call in which the spec values, a layer option, a parameter  *)
(* and the user values all set x.                                            *)
C1_Witness ==
    /\ Returned("ComputeValueOverrides") /\ err = nil
    /\ Len(inputs.Layers) = 2
    /\ Setting(<<"x">>) = 1..Len(ValueSources)
    /\ Touching(<<"x">>) = Setting(<<"x">>)

(* C10: a bundle that ValidateInputs accepts never makes                     *)
(* ComputeValueOverrides fail on the lookup of a layer input's option.       *)
C10_ValidatedLayersResolve ==
    (Returned("ComputeValueOverrides")
       /\ ValidateInputs(inputs, spec, NoopValidateResources).errs = {nil})
        => err.kind \notin {"NoSuchLayer", "NoSuchOption"}

-----------------------------------------------------------------------------
(* Properties of ValidateInputs *)

FlavorLayers == inputs.Flavor.CustomizationLayers
LayerIndexes == 1..Len(FlavorLayers)
RequiredLayers == {i \in LayerIndexes : ~FlavorLayers[i].Optional}
OptionalLayers == {i \in LayerIndexes : FlavorLayers[i].Optional}

(* The layer inputs naming layer i, and those of them naming one of its options. *)
Matching(i) == {k \in 1..Len(inputs.Layers) : inputs.Layers[k].LayerId = FlavorLayers[i].Id}
Resolves(i, k) ==
    \E j \in 1..Len(FlavorLayers[i].Options) :
        FlavorLayers[i].Options[j].Id = inputs.Layers[k].OptionId
OptionAt(i, k) ==
    CHOOSE o \in {FlavorLayers[i].Options[j] : j \in 1..Len(FlavorLayers[i].Options)} :
        o.Id = inputs.Layers[k].OptionId

(* Layer i has no matching, resolvable option among the inputs. *)
NoResolvableInput(i) == \A k \in Matching(i) : ~Resolves(i, k)
(* Layer i is named by some input and every input naming it resolves. *)
AllInputsResolve(i) == Matching(i) # {} /\ \A k \in Matching(i) : Resolves(i, k)

OptionsOf(i) == {FlavorLayers[i].Options[j] : j \in 1..Len(FlavorLayers[i].Options)}
SelectedSet == {selected[k] : k \in 1..Len(selected)}
EnoughInputs == Len(inputs.Layers) >= Cardinality(RequiredLayers)
LayerLoopCompleted ==
    err.kind \notin {"IncorrectNumberOfInputLayers", "MissingInputForRequiredLayer"}

(* C2 as stated: a required layer without a matching, resolvable option      *)
(* makes ValidateInputs fail with MissingInputForRequiredLayer, whatever the *)
(* inputs; an optional one records no option.                                *)
C2_AlwaysMissingInput ==
    Returned("ValidateInputs") =>
        /\ (\E i \in RequiredLayers : NoResolvableInput(i))
               => err.kind = "MissingInputForRequiredLayer"
        /\ \A i \in OptionalLayers :
               NoResolvableInput(i) => OptionsOf(i) \cap SelectedSet = {}

(* C2, amended: a required layer without a matching, resolvable option makes *)
(* ValidateInputs fail, with IncorrectNumberOfInputLayers when there are     *)
(* fewer layer inputs than required layers and with                          *)
(* MissingInputForRequiredLayer otherwise; an optional layer without one     *)
(* records no option, and when every required layer is named by inputs that  *)
(* all resolve, ValidateInputs fails with neither of the two errors.         *)
C2_MissingInputAfterCount ==
    Returned("ValidateInputs") =>
        /\ (\E i \in RequiredLayers : NoResolvableInput(i))
               => err.kind = IF EnoughInputs THEN "MissingInputForRequiredLayer"
                             ELSE "IncorrectNumberOfInputLayers"
        /\ \A i \in OptionalLayers :
               NoResolvableInput(i) => OptionsOf(i) \cap SelectedSet = {}
        /\ (\A i \in RequiredLayers : AllInputsResolve(i)) => LayerLoopCompleted

(* Enough inputs, an optional layer without a resolvable option declared     *)
(* before a required layer without one: the call failed on the required one. *)
C2_Witness ==
    /\ Returned("ValidateInputs")
    /\ EnoughInputs
    /\ \E i \in OptionalLayers, j \in RequiredLayers :
           i < j /\ NoResolvableInput(i) /\ NoResolvableInput(j)
    /\ err.kind = "MissingInputForRequiredLayer"

(* The options ValidateInputs is to select when, for each layer, the input   *)
(* at position pick(Matching(layer)) decides: the first or the last match.   *)
FirstMatch(i) == Min(Matching(i))
LastMatch(i) == Max(Matching(i))
ExpectedFirst ==
    {OptionAt(i, FirstMatch(i)) :
        i \in {l \in LayerIndexes : Matching(l) # {} /\ Resolves(l, FirstMatch(l))}}
ExpectedLast ==
    {OptionAt(i, LastMatch(i)) :
        i \in {l \in LayerIndexes : Matching(l) # {} /\ Resolves(l, LastMatch(l))}}

DeclaredRequired ==
    {spec.Parameters[k].Name : k \in {j \in 1..Len(spec.Parameters) :
                                          spec.Parameters[j].Required}}
OptionParamNames(o, onlyRequired) ==
    {o.Parameters[k].Name :
        k \in {j \in 1..Len(o.Parameters) : ~onlyRequired \/ o.Parameters[j].Required}}
(* The parameters required once `options` are selected (the Flavors of this  *)
(* model declare no parameters of their own).                                *)
RequiredBy(options) ==
    UNION {OptionParamNames(o, TRUE) : o \in options}
    \cup (DeclaredRequired \ UNION {OptionParamNames(o, FALSE) : o \in options})

(* What the rest of ValidateInputs does with the selected options: they are  *)
(* recorded, they are the ones submitted to the dependency validator, and    *)
(* their parameters are the ones required of the bundle.                     *)
SelectionUsed(expected) ==
    /\ SelectedSet = expected
    /\ Len(selected) = Cardinality(expected)
    /\ err.kind = "DependencyError" <=>
           \E o \in expected : o.ResourceDependencies \in failingDeps
    /\ err.kind = "DependencyError" =>
           err.arg \in {o.ResourceDependencies : o \in expected}
    /\ err.kind = "MissingInputForRequireParam" <=>
           /\ \A o \in expected : o.ResourceDependencies \notin failingDeps
           /\ \E n \in RequiredBy(expected) : ParamValue(inputs.Params, n) = EmptyText

(* C7 as stated: among several inputs naming one layer the first decides. *)
C7_FirstMatchWins ==
    (Returned("ValidateInputs") /\ LayerLoopCompleted) => SelectionUsed(ExpectedFirst)

(* C7, amended: among several inputs naming one layer the last one in input  *)
(* order decides which option is resolved, dependency-checked and used for   *)
(* the parameter namespace; earlier inputs naming the layer have no effect.  *)
C7_LastMatchWins ==
    (Returned("ValidateInputs") /\ LayerLoopCompleted) => SelectionUsed(ExpectedLast)

(* Two inputs name the same layer with different options of it. *)
C7_Witness ==
    /\ Returned("ValidateInputs") /\ LayerLoopCompleted
    /\ \E i \in LayerIndexes :
           /\ Cardinality(Matching(i)) = 2
           /\ Resolves(i, FirstMatch(i)) /\ Resolves(i, LastMatch(i))
           /\ OptionAt(i, FirstMatch(i)) # OptionAt(i, LastMatch(i))
           /\ OptionAt(i, LastMatch(i)) \in SelectedSet

(* The option selected for an earlier-declared layer fails the dependency    *)
(* validator and a later-declared required layer has no resolvable option.   *)
FailsBeforeMissing ==
    \E i \in LayerIndexes, j \in RequiredLayers :
        /\ i < j
        /\ Matching(i) # {} /\ Resolves(i, LastMatch(i))
        /\ OptionAt(i, LastMatch(i)).ResourceDependencies \in failingDeps
        /\ NoResolvableInput(j)

(* C8 as stated: the dependency validator runs as each layer is processed,   *)
(* so its error on an earlier layer is returned before a later required      *)
(* layer is found to have no option.                                         *)
C8_DependencyErrorFirst ==
    (Returned("ValidateInputs") /\ EnoughInputs /\ FailsBeforeMissing)
        => err.kind = "DependencyError"

(* C8, amended: ValidateInputs resolves every layer of the Flavor before it  *)
(* calls the dependency validator on any option.  With an earlier layer's    *)
(* option failing the validator and a later required layer without a         *)
(* resolvable option it returns MissingInputForRequiredLayer; it returns the *)
(* validator's error, unchanged, only when no required layer lacks an        *)
(* option.                                                                   *)
C8_LayersBeforeDependencies ==
    Returned("ValidateInputs") =>
        /\ (EnoughInputs /\ FailsBeforeMissing)
               => err.kind = "MissingInputForRequiredLayer"
        /\ err.kind = "DependencyError" =>
               /\ \A j \in RequiredLayers : OptionsOf(j) \cap SelectedSet # {}
               /\ err = Validator(failingDeps)[err.arg]
               /\ err.arg \in failingDeps

C8_Witness ==
    /\ Returned("ValidateInputs") /\ EnoughInputs /\ FailsBeforeMissing
    /\ err.kind = "MissingInputForRequiredLayer"

-----------------------------------------------------------------------------
(* Properties of getManifestsFromSteps *)

Steps == spec.InstallationSpec.Steps

(* The positions whose step name repeats the name of an earlier step. *)
Repeats == {j \in 1..Len(Steps) : \E i \in 1..(j - 1) : Steps[i].Name = Steps[j].Name}

(* C3 as stated: a run that ends with the duplicate-step-name error has made *)
(* no call to the rendering engine or the archive fetcher.                   *)
C3_NoAcquisitionBeforeDuplicate ==
    (Returned("getManifestsFromSteps") /\ err.kind = "DuplicateStepName")
        => acquired = <<>>

(* C3, amended: a run that ends with the duplicate-step-name error has       *)
(* acquired the manifests of every step preceding the first repeated name,   *)
(* one call each in step order, and has made no call for the repeated step   *)
(* or any step after it.                                                     *)
C3_AcquiredUpToDuplicate ==
    (Returned("getManifestsFromSteps") /\ err.kind = "DuplicateStepName") =>
        /\ Repeats # {}
        /\ err.arg = Steps[Min(Repeats)].Name
        /\ Len(acquired) = Min(Repeats) - 1
        /\ \A k \in 1..Len(acquired) : acquired[k].uri = Steps[k].Uri

(* The third step repeats a name: the two steps before it were acquired. *)
C3_Witness ==
    /\ Returned("getManifestsFromSteps") /\ err.kind = "DuplicateStepName"
    /\ Min(Repeats) = 3
    /\ Len(acquired) = 2

(* The resources the source of step k produces, in their order. *)
Produced(k) == ResourceList(EngineResult(Steps[k].Uri).manifests)
RECURSIVE ProducedBefore(_)
ProducedBefore(k) == IF k <= 1 THEN 0 ELSE ProducedBefore(k - 1) + Len(Produced(k - 1))

(* C4: when every step has a name of its own and is acquired, the resources  *)
(* of the returned manifests are those of step 1, then those of step 2, and  *)
(* so on, each step's resources in the order its source produced them, and   *)
(* each carrying the installation-step label with the name of its step,      *)
(* whatever value it had for that label, and its other labels unchanged.     *)
C4_StepLabelsAndOrder ==
    (Returned("getManifestsFromSteps") /\ err = nil) =>
        LET rs == ResourceList(ret) IN
        /\ Len(rs) = ProducedBefore(Len(Steps) + 1)
        /\ \A k \in 1..Len(Steps) : \A i \in 1..Len(Produced(k)) :
               LET r == rs[ProducedBefore(k) + i]
                   p == Produced(k)[i]
               IN /\ r.name = p.name
                  /\ DOMAIN r.labels = DOMAIN p.labels \cup {InstallationStepLabel}
                  /\ r.labels[InstallationStepLabel] = Steps[k].Name
                  /\ \A l \in DOMAIN p.labels \ {InstallationStepLabel} :
                         r.labels[l] = p.labels[l]

(* Three steps succeeded, and a resource of the second one came with a value *)
(* for the installation-step label.                                          *)
C4_Witness ==
    /\ Returned("getManifestsFromSteps") /\ err = nil
    /\ Len(Steps) = 3
    /\ \E i \in 1..Len(Produced(2)) : InstallationStepLabel \in DOMAIN Produced(2)[i].labels
    /\ Len(ResourceList(ret)) > Len(Produced(2))

-----------------------------------------------------------------------------
(* Properties of ExecInputValuesTemplates and of the pipeline *)

(* Some templated text of the bundle holds a malformed template action. *)
MalformedTemplate ==
    \/ ParseFails(inputs.SpecDefinedValues)
    \/ ParseFails(inputs.UserDefinedValues)
    \/ \E n \in DOMAIN inputs.Params : ParseFails(inputs.Params[n])

(* C5: on a bundle that passes validation and holds a malformed template     *)
(* action, ComputeResourcesForApplication returns the wrapped templating     *)
(* error, without a panic and without acquiring any manifest.                *)
C5_MalformedTemplateIsAnError ==
    (Returned("ComputeResourcesForApplication") /\ MalformedTemplate
       /\ ValidateInputs(inputs, spec, Validator(failingDeps)).errs = {nil})
        => /\ ~panicked
           /\ err.kind = "FailedRenderValueTemplates"
           /\ acquired = <<>>

(* C6: after ExecInputValuesTemplates returned, with or without an error,    *)
(* the Params map the caller holds has the contents it had at the call.      *)
C6_CallerBundleUnchanged ==
    Returned("ExecInputValuesTemplates") => heapParams = inputs.Params

(* C9: when the call returns a bundle, it is the bundle it returns for every *)
(* order in which the Params map can be visited.                             *)
C9_OrderIndependent ==
    (Returned("ExecInputValuesTemplates") /\ err = nil /\ ~panicked) =>
        \A order \in MapOrders(inputs.Params) :
            ExecInputValuesTemplates(inputs, order).ret = ret

====
